---- MODULE Spec2Model ----
(***************************************************************************)
(* Model of transform.py: a one-shot script that reads CallFunctionTest.php,*)
(* rewrites every old-form RequestObjectData::from([...]) call matched by  *)
(* one regular expression into the nested CallData form, writes the file   *)
(* back and prints a completion message.                                   *)
(*                                                                         *)
(* Text is a sequence of tokens.  Every token stands for the characters it *)
(* spells; the tokens are chosen so that no literal of the pattern can     *)
(* begin inside one token and end inside another.                          *)
(***************************************************************************)
EXTENDS Integers, Sequences, FiniteSets, TLC

VARIABLES file, original, segs, content, pc, err, stdout, writes, steps

vars == <<file, original, segs, content, pc, err, stdout, writes, steps>>

----------------------------------------------------------------------------
(* Tokens *)

SP == " "
NL == "\n"
COMMA == ","
AR == "=>"
HEAD == "$requestObject = RequestObjectData::from(["
CLOSE == "]);"

\* \s of the pattern
WS == {SP, NL}

\* ['"]name['"]
Quoted(name) == {"'" \o name \o "'", "\"" \o name \o "\""}

----------------------------------------------------------------------------
(* The pattern (line 27), one record per element.  q is the quantifier:    *)
(* "1" exactly one, "?" greedy optional, "*" greedy star, "+" greedy plus, *)
(* "+?" lazy plus.  set is a character class, negated when neg.  cap is    *)
(* the capture group the element is (0: none; an element taken exactly     *)
(* once is never a group here).  lead marks a literal with the \s* that    *)
(* directly precedes it: no literal of the pattern is whitespace, so that  *)
(* \s* takes the whole run of whitespace (giving some of it back could     *)
(* only put whitespace under the literal) and the two are one element.     *)

El(set, neg, q, cap) ==
    [set |-> set, neg |-> neg, q |-> q, cap |-> cap, lead |-> FALSE]

\* one token of set
Lit(set) == El(set, FALSE, "1", 0)

\* \s* and then one token of set
WsLit(set) == [set |-> set, neg |-> FALSE, q |-> "1", cap |-> 0, lead |-> TRUE]

\* \s
WsClass == El(WS, FALSE, "1", 0)

\* \s* before an element that may itself take whitespace
WsStar == El(WS, FALSE, "*", 0)

\* \s*['"]name['"]\s*=>
Key(name) == <<WsLit(Quoted(name)), WsLit({AR})>>

pattern ==
    <<El(WS, FALSE, "+", 1), Lit({HEAD})>>
    \o Key("jsonrpc") \o <<WsLit(Quoted("2.0")), WsLit({COMMA})>>
    \o Key("id") \o <<WsStar, El({COMMA}, TRUE, "+", 2), Lit({COMMA})>>
    \o Key("method") \o <<WsStar, El({COMMA}, TRUE, "+", 3), Lit({COMMA})>>
    \o Key("params") \o <<WsStar, El({}, TRUE, "+?", 4)>>
    \o <<El({COMMA}, FALSE, "?", 0), WsLit({CLOSE})>>

----------------------------------------------------------------------------
(* Backtracking matcher with the priorities of Python's re: a greedy       *)
(* element tries the longest run first, a lazy one the shortest first, and *)
(* the first count under which the rest of the pattern matches wins.       *)

InClass(tok, el) == (tok \in el.set) # el.neg

\* the number of consecutive tokens of class el at pos
RunLen(text, pos, el) ==
    LET n == Len(text)
    IN  IF \A i \in pos..n : InClass(text[i], el) THEN n - pos + 1
        ELSE (CHOOSE i \in pos..n :
                  /\ ~InClass(text[i], el)
                  /\ \A j \in pos..(i - 1) : InClass(text[j], el)) - pos

NoGroups == [g \in 1..4 |-> <<0, 0>>]

NoMatch == [ok |-> FALSE, end |-> 0, groups |-> NoGroups]

Capture(r, el, from, to) ==
    IF el.cap = 0 THEN r ELSE [r EXCEPT !.groups[el.cap] = <<from, to>>]

\* the fewest and the most tokens the element pi may take at pos
Least(pi) == IF pattern[pi].q \in {"?", "*"} THEN 0 ELSE 1

Most(text, pi, pos) ==
    LET run == RunLen(text, pos, pattern[pi])
    IN  IF pattern[pi].q = "?" /\ run > 1 THEN 1 ELSE run

\* where the literal pi stands when matched from pos, past its leading \s*
LitPos(text, pi, pos) ==
    IF pattern[pi].lead THEN pos + RunLen(text, pos, WsClass) ELSE pos

LitFits(text, pi, pos) ==
    /\ LitPos(text, pi, pos) <= Len(text)
    /\ InClass(text[LitPos(text, pi, pos)], pattern[pi])

RECURSIVE MatchFrom(_, _, _), TryDown(_, _, _, _, _), TryUp(_, _, _, _, _)

\* greedy: the element pi takes k tokens at pos, then k-1, ... down to lo
TryDown(text, pi, pos, k, lo) ==
    IF k < lo THEN NoMatch
    ELSE LET r == MatchFrom(text, pi + 1, pos + k)
         IN  IF r.ok THEN Capture(r, pattern[pi], pos, pos + k)
             ELSE TryDown(text, pi, pos, k - 1, lo)

\* lazy: the element pi takes the fewest tokens in lo..hi under which the
\* rest of the pattern matches
TryUp(text, pi, pos, lo, hi) ==
    LET fits == {k \in lo..hi : MatchFrom(text, pi + 1, pos + k).ok}
        k == CHOOSE n \in fits : \A j \in fits : n <= j
    IN  IF fits = {} THEN NoMatch
        ELSE Capture(MatchFrom(text, pi + 1, pos + k), pattern[pi], pos, pos + k)

\* match pattern[pi..] against text at pos; end is the index after the match
MatchFrom(text, pi, pos) ==
    CASE pi > Len(pattern) ->
            [ok |-> TRUE, end |-> pos, groups |-> NoGroups]
      [] pi <= Len(pattern) /\ pattern[pi].q = "1" /\ ~LitFits(text, pi, pos) ->
            NoMatch
      [] pi <= Len(pattern) /\ pattern[pi].q = "1" /\ LitFits(text, pi, pos) ->
            MatchFrom(text, pi + 1, LitPos(text, pi, pos) + 1)
      [] pi <= Len(pattern) /\ pattern[pi].q = "+?" ->
            TryUp(text, pi, pos, Least(pi), Most(text, pi, pos))
      [] OTHER ->
            TryDown(text, pi, pos, Most(text, pi, pos), Least(pi))

\* the pattern matched at pos (re's match at a given start)
MatchAt(text, pos) == MatchFrom(text, 1, pos)

Group(text, m, g) == SubSeq(text, m.groups[g][1], m.groups[g][2] - 1)

----------------------------------------------------------------------------
(* transform_request (lines 8-24) *)

Sp4 == <<SP, SP, SP, SP>>

\* result += f"{indent}{pad}{body}\n"
Line(indent, pad, body) == indent \o pad \o body \o <<NL>>

\* transform_request with the id and the method interpolated in each other's
\* place
transform_request_swapped(indent, id_val, method, params) ==
    Line(indent, <<>>, <<HEAD>>)
    \o Line(indent, Sp4, <<"'protocol'", SP, AR, SP, "VendProtocol::VERSION", COMMA>>)
    \o Line(indent, Sp4, <<"'id'", SP, AR, SP>> \o method \o <<COMMA>>)
    \o Line(indent, Sp4, <<"'call'", SP, AR, SP, "CallData::from([">>)
    \o Line(indent, Sp4 \o Sp4, <<"'function'", SP, AR, SP>> \o id_val \o <<COMMA>>)
    \o Line(indent, Sp4 \o Sp4, <<"'arguments'", SP, AR, SP>> \o params \o <<COMMA>>)
    \o Line(indent, Sp4, <<"])", COMMA>>)
    \o indent \o <<CLOSE>>

\* transform_request that lays the call out over several lines but keeps the
\* flat old keys
transform_request_flat(indent, id_val, method, params) ==
    Line(indent, <<>>, <<HEAD>>)
    \o Line(indent, Sp4, <<"'jsonrpc'", SP, AR, SP, "'2.0'", COMMA>>)
    \o Line(indent, Sp4, <<"'id'", SP, AR, SP>> \o id_val \o <<COMMA>>)
    \o Line(indent, Sp4, <<"'method'", SP, AR, SP>> \o method \o <<COMMA>>)
    \o Line(indent, Sp4, <<"'params'", SP, AR, SP>> \o params \o <<COMMA>>)
    \o indent \o <<CLOSE>>

transform_request(indent, id_val, method, params) ==
    Line(indent, <<>>, <<HEAD>>)
    \o Line(indent, Sp4, <<"'protocol'", SP, AR, SP, "VendProtocol::VERSION", COMMA>>)
    \o Line(indent, Sp4, <<"'id'", SP, AR, SP>> \o id_val \o <<COMMA>>)
    \o Line(indent, Sp4, <<"'call'", SP, AR, SP, "CallData::from([">>)
    \o Line(indent, Sp4 \o Sp4, <<"'function'", SP, AR, SP>> \o method \o <<COMMA>>)
    \o Line(indent, Sp4 \o Sp4, <<"'arguments'", SP, AR, SP>> \o params \o <<COMMA>>)
    \o Line(indent, Sp4, <<"])", COMMA>>)
    \o indent \o <<CLOSE>>

Replacement(text, m) ==
    transform_request(Group(text, m, 1), Group(text, m, 2),
                      Group(text, m, 3), Group(text, m, 4))

----------------------------------------------------------------------------
(* re.sub (line 29): scan left to right; copy the text up to the first     *)
(* position where the pattern matches, emit the replacement of that match  *)
(* and go on after the match.                                              *)

\* the first position from pos on where the pattern matches, 0 if none
NextStart(text, pos) ==
    LET starts == {p \in pos..Len(text) : MatchAt(text, p).ok}
    IN  IF starts = {} THEN 0
        ELSE CHOOSE p \in starts : \A q \in starts : p <= q

RECURSIVE SubFrom(_, _)
SubFrom(text, pos) ==
    LET start == NextStart(text, pos)
        m == MatchAt(text, start)
    IN  IF start = 0 THEN SubSeq(text, pos, Len(text))
        ELSE SubSeq(text, pos, start - 1) \o Replacement(text, m)
             \o SubFrom(text, m.end)

\* a substitution that scans its own output once more
re_sub_rescan(text) == SubFrom(SubFrom(text, 1), 1)

re_sub(text) == SubFrom(text, 1)

\* the matches re.sub replaces, in order (re.finditer)
RECURSIVE FindFrom(_, _)
FindFrom(text, pos) ==
    LET start == NextStart(text, pos)
        m == MatchAt(text, start)
    IN  IF start = 0 THEN <<>>
        ELSE <<[start |-> start, end |-> m.end, groups |-> m.groups]>>
             \o FindFrom(text, m.end)

finditer(text) == FindFrom(text, 1)

----------------------------------------------------------------------------
(* Input texts.  The file is a concatenation of at most MaxSegs segments:  *)
(* plain statements, line breaks, well-formed old-form calls in three      *)
(* layouts, and malformed calls (a key missing, the parameter value        *)
(* missing, the closing "]);" missing).                                    *)

MaxSegs == 2

RECURSIVE JoinComma(_)
JoinComma(parts) ==
    IF parts = <<>> THEN <<>>
    ELSE IF Len(parts) = 1 THEN parts[1]
    ELSE parts[1] \o <<COMMA>> \o JoinComma(Tail(parts))

\* 'key' => value, written without optional whitespace
KV(key, value) == <<key, AR>> \o value

JSONRPC == KV("'jsonrpc'", <<"'2.0'">>)
ID == KV("'id'", <<"$id">>)
METHOD == KV("'method'", <<"'foo'">>)
PARAMS == KV("'params'", <<"$args">>)

OldCall(parts, close) == <<SP, HEAD>> \o JoinComma(parts) \o close

\* a call as it stands in a test method: after a statement and a blank line,
\* laid out over several lines, double-quoted keys, an array as parameters
\* and a trailing comma, followed by another statement
SpacedCall ==
    <<"$x = 1;", NL, NL,
      SP, SP, HEAD, NL,
      SP, "\"jsonrpc\"", SP, AR, SP, "\"2.0\"", COMMA, NL,
      SP, "\"id\"", SP, AR, SP, "1", COMMA, NL,
      SP, "\"method\"", SP, AR, SP, "\"bar\"", COMMA, NL,
      SP, "\"params\"", SP, AR, SP, "[1", COMMA, SP, "2]", COMMA, NL,
      SP, SP, CLOSE, NL,
      "return;">>

\* a call whose parameters are a closure holding another call
NestedCall ==
    OldCall(<<JSONRPC, ID, METHOD,
              KV("'params'", <<"function () {", NL>>
                             \o OldCall(<<JSONRPC, ID, METHOD, PARAMS>>, <<CLOSE>>)
                             \o <<NL, "}">>)>>,
            <<CLOSE>>)

Segment(kind) ==
    CASE kind = "stmt" -> <<"$x = 1;">>
      [] kind = "nl" -> <<NL>>
      [] kind = "later" -> <<"foo([1", CLOSE>>
      [] kind = "call" -> OldCall(<<JSONRPC, ID, METHOD, PARAMS>>, <<CLOSE>>)
      [] kind = "spaced" -> SpacedCall
      [] kind = "nested" -> NestedCall
      [] kind = "unclosed" -> OldCall(<<JSONRPC, ID, METHOD, PARAMS>>, <<>>)
      [] kind = "noJsonrpc" -> OldCall(<<ID, METHOD, PARAMS>>, <<CLOSE>>)
      [] kind = "noId" -> OldCall(<<JSONRPC, METHOD, PARAMS>>, <<CLOSE>>)
      [] kind = "noMethod" -> OldCall(<<JSONRPC, ID, PARAMS>>, <<CLOSE>>)
      [] kind = "noParams" -> OldCall(<<JSONRPC, ID, METHOD>>, <<CLOSE>>)
      [] kind = "emptyParams" ->
            OldCall(<<JSONRPC, ID, METHOD, <<"'params'", AR, SP>>>>, <<CLOSE>>)

WellFormedKinds == {"call", "spaced", "nested"}
MissingKeyKinds == {"noJsonrpc", "noId", "noMethod", "noParams"}
MalformedKinds == MissingKeyKinds \cup {"unclosed"}
Kinds == {"stmt", "nl", "later", "emptyParams"} \cup WellFormedKinds \cup MalformedKinds

SegSeqs == UNION {[1..n -> Kinds] : n \in 0..MaxSegs}

RECURSIVE Flatten(_)
Flatten(ks) == IF ks = <<>> THEN <<>> ELSE Segment(Head(ks)) \o Flatten(Tail(ks))

\* index of the first token of segment i in Flatten(ks)
Offset(ks, i) == Len(Flatten(SubSeq(ks, 1, i - 1))) + 1

----------------------------------------------------------------------------
(* The script, one action per statement.  file is the file on disk:        *)
(* whether it exists, may be opened for reading, decodes as text, may be   *)
(* opened for writing, and its content.                                    *)

DoneMsg == "Transformation complete!"

\* the conditions of the file the run can meet
FileModes ==
    {[exists |-> TRUE, readable |-> TRUE, decodable |-> TRUE, writable |-> TRUE],
     [exists |-> FALSE, readable |-> FALSE, decodable |-> FALSE, writable |-> FALSE],
     [exists |-> TRUE, readable |-> FALSE, decodable |-> TRUE, writable |-> TRUE],
     [exists |-> TRUE, readable |-> TRUE, decodable |-> FALSE, writable |-> TRUE],
     [exists |-> TRUE, readable |-> TRUE, decodable |-> TRUE, writable |-> FALSE]}

Init ==
    /\ segs \in SegSeqs
    /\ \E mode \in FileModes :
          /\ mode.exists \/ segs = <<>>
          /\ file = [exists |-> mode.exists, readable |-> mode.readable,
                     decodable |-> mode.decodable, writable |-> mode.writable,
                     data |-> Flatten(segs)]
    /\ original = file
    /\ content = <<>>
    /\ pc = "open_r"
    /\ err = "none"
    /\ stdout = <<>>
    /\ writes = 0
    /\ steps = <<>>

Raise(e) ==
    /\ pc' = "error"
    /\ err' = e
    /\ UNCHANGED <<file, original, segs, content, stdout, writes, steps>>

\* line 4: open(path, 'r')
OpenRead ==
    /\ pc = "open_r"
    /\ file.exists /\ file.readable
    /\ pc' = "read"
    /\ steps' = Append(steps, "open_r")
    /\ UNCHANGED <<file, original, segs, content, err, stdout, writes>>

OpenReadMissing ==
    /\ pc = "open_r"
    /\ ~file.exists
    /\ Raise("FileNotFoundError")

OpenReadDenied ==
    /\ pc = "open_r"
    /\ file.exists /\ ~file.readable
    /\ Raise("PermissionError")

\* line 5: content = f.read()
Read ==
    /\ pc = "read"
    /\ file.decodable
    /\ content' = file.data
    /\ pc' = "sub"
    /\ steps' = Append(steps, "read")
    /\ UNCHANGED <<file, original, segs, err, stdout, writes>>

ReadUndecodable ==
    /\ pc = "read"
    /\ ~file.decodable
    /\ Raise("UnicodeDecodeError")

\* line 29: content = re.sub(pattern, transform_request, content, ...)
Substitute ==
    /\ pc = "sub"
    /\ content' = re_sub(content)
    /\ pc' = "open_w"
    /\ steps' = Append(steps, "sub")
    /\ UNCHANGED <<file, original, segs, err, stdout, writes>>

\* an opening for writing that truncates the file before it is refused
OpenWriteDeniedTruncated ==
    /\ pc = "open_w"
    /\ ~file.writable
    /\ file' = [file EXCEPT !.data = <<>>]
    /\ pc' = "error"
    /\ err' = "PermissionError"
    /\ UNCHANGED <<original, segs, content, stdout, writes, steps>>

\* line 31: open(path, 'w') truncates the file
OpenWrite ==
    /\ pc = "open_w"
    /\ file.writable
    /\ file' = [file EXCEPT !.exists = TRUE, !.data = <<>>]
    /\ pc' = "write"
    /\ steps' = Append(steps, "open_w")
    /\ UNCHANGED <<original, segs, content, err, stdout, writes>>

OpenWriteDenied ==
    /\ pc = "open_w"
    /\ ~file.writable
    /\ Raise("PermissionError")

\* a write of the text as it was read instead of the substituted text
WriteAsRead ==
    /\ pc = "write"
    /\ file' = [file EXCEPT !.data = original.data]
    /\ writes' = writes + 1
    /\ pc' = "print"
    /\ steps' = Append(steps, "write")
    /\ UNCHANGED <<original, segs, content, err, stdout>>

\* line 32: f.write(content), and the close that ends the with block
Write ==
    /\ pc = "write"
    /\ file' = [file EXCEPT !.data = content]
    /\ writes' = writes + 1
    /\ pc' = "print"
    /\ steps' = Append(steps, "write")
    /\ UNCHANGED <<original, segs, content, err, stdout>>

\* a print that is skipped when the substitution changed nothing
PrintIfChanged ==
    /\ pc = "print"
    /\ stdout' = IF content = original.data THEN stdout
                 ELSE Append(stdout, DoneMsg)
    /\ pc' = "done"
    /\ steps' = Append(steps, "print")
    /\ UNCHANGED <<file, original, segs, content, err, writes>>

\* line 34: print("Transformation complete!")
PrintDone ==
    /\ pc = "print"
    /\ stdout' = Append(stdout, DoneMsg)
    /\ pc' = "done"
    /\ steps' = Append(steps, "print")
    /\ UNCHANGED <<file, original, segs, content, err, writes>>

\* the statements that open, read, write the file or print
FileStep ==
    \/ OpenRead
    \/ OpenReadMissing
    \/ OpenReadDenied
    \/ Read
    \/ ReadUndecodable
    \/ OpenWrite
    \/ OpenWriteDenied
    \/ Write
    \/ PrintDone

Next ==
    \/ FileStep
    \/ Substitute

Spec == Init /\ [][Next]_vars

----------------------------------------------------------------------------
(* Vocabulary of the properties *)

\* the text the run started from
Text == original.data

\* the matches the substitution replaced in it
Matches == finditer(Text)

\* the index of the call's opener in a match: group 1 ends where it begins
HeadPos(m) == m.groups[1][2]

Holds(seq, tok) == \E i \in DOMAIN seq : seq[i] = tok

\* the nested two-object form, eight lines, every line led by indent
NestedForm(indent, id, method, params) ==
    (indent \o <<HEAD, NL>>
     \o indent \o <<SP, SP, SP, SP, "'protocol'", SP, AR, SP,
                    "VendProtocol::VERSION", COMMA, NL>>)
    \o (indent \o <<SP, SP, SP, SP, "'id'", SP, AR, SP>> \o id \o <<COMMA, NL>>)
    \o (indent \o <<SP, SP, SP, SP, "'call'", SP, AR, SP, "CallData::from([", NL>>)
    \o (indent \o <<SP, SP, SP, SP, SP, SP, SP, SP, "'function'", SP, AR, SP>>
        \o method \o <<COMMA, NL>>)
    \o (indent \o <<SP, SP, SP, SP, SP, SP, SP, SP, "'arguments'", SP, AR, SP>>
        \o params \o <<COMMA, NL>>)
    \o (indent \o <<SP, SP, SP, SP, "])", COMMA, NL>>)
    \o (indent \o <<CLOSE>>)

\* the output expected for the matches ms[i..] of text, from pos on
RECURSIVE Splice(_, _, _, _)
Splice(text, ms, i, pos) ==
    IF i > Len(ms) THEN SubSeq(text, pos, Len(text))
    ELSE SubSeq(text, pos, ms[i].start - 1)
         \o NestedForm(Group(text, ms[i], 1), Group(text, ms[i], 2),
                       Group(text, ms[i], 3), Group(text, ms[i], 4))
         \o Splice(text, ms, i + 1, ms[i].end)

FullRun == <<"open_r", "read", "sub", "open_w", "write", "print">>

IsPrefix(a, b) == Len(a) <= Len(b) /\ SubSeq(b, 1, Len(a)) = a

----------------------------------------------------------------------------
----------------------------------------------------------------------------
\* the well-formed calls of segment kind, each as <<index of its opener,
\* index after its closing "]);">> within the segment
Positions(seq, tok) == {i \in DOMAIN seq : seq[i] = tok}
First(S) == CHOOSE i \in S : \A j \in S : i <= j
Last(S) == CHOOSE i \in S : \A j \in S : i >= j

CallsOfKind(kind) ==
    LET seg == Segment(kind)
        heads == Positions(seg, HEAD)
        closes == Positions(seg, CLOSE)
    IN  IF kind \in {"call", "spaced"} THEN {<<First(heads), Last(closes) + 1>>}
        ELSE IF kind = "nested"
             THEN {<<First(heads), Last(closes) + 1>>,
                   <<Last(heads), First(closes) + 1>>}
        ELSE {}

\* the well-formed calls of the whole text
WellFormedCalls ==
    UNION {{<<c[1] + Offset(segs, i) - 1, c[2] + Offset(segs, i) - 1>> :
               c \in CallsOfKind(segs[i])} : i \in DOMAIN segs}

\* C2: in a text holding several well-formed calls every one of them is
\* replaced: there are as many replacements as well-formed calls, each match
\* covers exactly one call from its opener to its own closing, and no match
\* reaches into another call.
C2_EveryCallReplacedOnItsOwn ==
    (pc = "done" /\ Cardinality(WellFormedCalls) >= 2) =>
        /\ Len(Matches) = Cardinality(WellFormedCalls)
        /\ {<<HeadPos(Matches[i]), Matches[i].end>> : i \in DOMAIN Matches}
               = WellFormedCalls

----------------------------------------------------------------------------
NoOpenerInParams ==
    \A i \in DOMAIN Matches : ~Holds(Group(Text, Matches[i], 4), HEAD)

----------------------------------------------------------------------------
\* the tokens of segment i of the text
SegRange(i) == Offset(segs, i)..(Offset(segs, i) + Len(Segment(segs[i])) - 1)

\* C4: a malformed call (one of the four keys missing, or its own closing
\* "]);" missing) is never matched: no match covers any of its tokens past
\* the whitespace that leads it, so it is passed through as it was.
C4_MalformedNeverMatched ==
    pc = "done" =>
        \A i \in DOMAIN segs :
            segs[i] \in MalformedKinds =>
                \A j \in DOMAIN Matches :
                    \A t \in SegRange(i) :
                        Text[t] \in WS \/ t < Matches[j].start
                                           \/ t >= Matches[j].end

----------------------------------------------------------------------------
\* C5: the output is the text outside the matches, unchanged and in order,
\* alternating with the replacements of the matches, which follow one
\* another without overlap; a replacement is not scanned again.
C5_FrameAroundMatches ==
    pc = "done" =>
        /\ file.data = Splice(Text, Matches, 1, 1)
        /\ \A i \in DOMAIN Matches :
              /\ 1 <= Matches[i].start /\ Matches[i].start < Matches[i].end
              /\ Matches[i].end <= Len(Text) + 1
              /\ i > 1 => Matches[i - 1].end <= Matches[i].start

\* a finished run with two matches, text before the first, between and after
C5_Witness ==
    /\ pc = "done"
    /\ Len(Matches) = 2
    /\ Matches[1].start > 1
    /\ Matches[1].end < Matches[2].start
    /\ Matches[2].end <= Len(Text)

----------------------------------------------------------------------------
\* C6: a run over a text with no match succeeds: the file is written once
\* with exactly the content read and the completion message is printed, as
\* in a run that transformed something.
C6_ZeroMatchesStillSucceeds ==
    (pc = "done" /\ Matches = <<>>) =>
        /\ file.data = Text
        /\ writes = 1
        /\ err = "none"
        /\ stdout = <<DoneMsg>>

\* a finished run over a text that holds a call opener but no match
C6_Witness ==
    /\ pc = "done"
    /\ Matches = <<>>
    /\ Holds(Text, HEAD)
    /\ stdout = <<DoneMsg>>

----------------------------------------------------------------------------
\* the file cannot be opened for reading, read, or opened for writing
Unusable ==
    ~file.exists \/ ~file.readable \/ ~file.decodable \/ ~file.writable

\* C7: with a file that is missing, unreadable or unwritable the run ends in
\* the uncaught error of the failing step: nothing is printed, nothing is
\* written, the file stays as it was (a missing file stays missing), the run
\* goes on until the error and takes no step after it.
C7_FailureLeavesFileAlone ==
    /\ Unusable =>
          /\ stdout = <<>>
          /\ writes = 0
          /\ file = original
          /\ pc \notin {"write", "print", "done"}
          /\ pc \in {"error", "sub"} \/ ENABLED FileStep
    /\ pc = "error" =>
          /\ Unusable
          /\ ~ENABLED FileStep
          /\ \/ ~file.exists /\ steps = <<>> /\ err = "FileNotFoundError"
             \/ file.exists /\ ~file.readable /\ steps = <<>>
                /\ err = "PermissionError"
             \/ ~file.decodable /\ steps = <<"open_r">>
                /\ err = "UnicodeDecodeError"
             \/ ~file.writable /\ steps = <<"open_r", "read", "sub">>
                /\ err = "PermissionError"

\* a run stopped at the opening for writing, over a text with a match
C7_Witness ==
    /\ pc = "error"
    /\ ~file.writable
    /\ Matches # <<>>
    /\ content # Text
    /\ file = original

----------------------------------------------------------------------------
\* C8: the statements run in the order open, read, substitute, open for
\* writing, write, print; the message is printed at most once and only after
\* the write; a run that reaches its end wrote the file exactly once and
\* left in it the transform of the content read.
C8_ReadSubstituteWritePrint ==
    /\ IsPrefix(steps, FullRun)
    /\ Len(stdout) <= 1
    /\ writes <= 1
    /\ stdout # <<>> =>
          /\ stdout = <<DoneMsg>>
          /\ writes = 1
          /\ file.data = re_sub(Text)
    /\ pc = "done" =>
          /\ steps = FullRun
          /\ stdout = <<DoneMsg>>
          /\ writes = 1
          /\ file.data = re_sub(Text)

\* a finished run that changed the file
C8_Witness ==
    /\ pc = "done"
    /\ stdout = <<DoneMsg>>
    /\ file.data # Text

----------------------------------------------------------------------------
\* the indentation of the line the matched call stands on: the spaces that
\* directly precede its opener
RECURSIVE SpacesBefore(_, _)
SpacesBefore(text, h) ==
    IF h > 1 /\ text[h - 1] = SP THEN SpacesBefore(text, h - 1) \o <<SP>>
    ELSE <<>>

\* C9: the replacement of a matched call is the eight lines of the nested
\* form, each led by the indentation of the call's own line (plus four or
\* eight spaces), whatever lines or blank lines precede the call.
C9_EightLinesAtOwnIndentation ==
    pc = "done" =>
        \A i \in DOMAIN Matches :
            Replacement(Text, Matches[i]) =
                NestedForm(SpacesBefore(Text, HeadPos(Matches[i])),
                           Group(Text, Matches[i], 2),
                           Group(Text, Matches[i], 3),
                           Group(Text, Matches[i], 4))

----------------------------------------------------------------------------
\* the text between the captured params and the end of the match is an
\* optional comma, whitespace and the closing
RECURSIVE IsTail(_)
IsTail(seq) ==
    /\ seq # <<>>
    /\ \/ seq = <<CLOSE>>
       \/ Head(seq) \in WS /\ IsTail(Tail(seq))

IsCommaTail(seq) == IsTail(seq) \/ (seq # <<>> /\ Head(seq) = COMMA /\ IsTail(Tail(seq)))

\* C10: the captured params end before the optional trailing comma and the
\* whitespace that precede the closing, and reach no further than the first
\* "]);" after the 'params' key: the capture holds no "]);".
C10_ParamsStopAtFirstClose ==
    pc = "done" =>
        \A i \in DOMAIN Matches :
            LET m == Matches[i]
            IN  /\ IsCommaTail(SubSeq(Text, m.groups[4][2], m.end - 1))
                /\ ~Holds(Group(Text, m, 4), CLOSE)

====
